---- MODULE Spec2Model ----
(***************************************************************************)
(* Model of MinecraftStatusManager                                         *)
(* (server/src/services/minecraft-status/minecraft-status.service.ts):     *)
(* the status poller, its cached snapshot, its repeating timer and the     *)
(* Discord presence it drives.                                             *)
(*                                                                         *)
(* JavaScript runs handlers to completion between awaits, so one action is *)
(* one synchronous stretch of code: the part of start() / the timer        *)
(* callback / forceUpdate() up to `await fetch(...)`, and the part of      *)
(* updateStatus() after the response has arrived together with the         *)
(* continuation of its caller.                                             *)
(***************************************************************************)
EXTENDS Integers, Sequences, FiniteSets

\* Number of fetch cycles that may be begun in one behaviour.
MaxCycles == 3

\* Number of fetches that may be awaiting their answer at the same time.
MaxInFlight == 2

----------------------------------------------------------------------------
(* Optional values: `null` / `undefined` is the empty sequence.            *)

None == <<>>

Some(x) == <<x>>

IsSome(o) == Len(o) > 0

Get(o) == o[1]

----------------------------------------------------------------------------
(* The objects of the heap. A MinecraftStatus is a mutable object reached  *)
(* through a reference; reference 0 is null. At most two objects are       *)
(* reachable at a time (the manager's and the one a reader holds), a third *)
(* reference is needed while a new object is being built.                  *)

NullRef == 0

Refs == 1..3

\* Who called updateStatus().
Origins == {"start", "timer", "force"}

\* The `discordClient` argument of start(): a falsy value, or the bot
\* client. The bot calls start() from its clientReady listener after it has
\* checked `bot.user`, so the client start() is given has a user.
NoClient == "none"

ClientArgs == {NoClient, "ready"}

\* this.discordClient?.user
HasUser(client) == client = "ready"

----------------------------------------------------------------------------
(* What the remote endpoint can answer (McStatusResponse).                 *)

Alice == [name_clean |-> "alice", uuid |-> "u-1"]

Responses ==
  { [online |-> TRUE, players |-> None, version |-> None, motd |-> None],
    [online |-> TRUE,
     players |-> Some([online |-> 2, max |-> 20, list |-> None]),
     version |-> Some([name_clean |-> "1.21"]),
     motd |-> Some([clean |-> "welcome"])],
    [online |-> TRUE,
     players |-> Some([online |-> 1, max |-> 20, list |-> Some(<<Alice>>)]),
     version |-> Some([name_clean |-> "1.21"]),
     motd |-> None],
    [online |-> FALSE, players |-> None, version |-> None, motd |-> None] }

\* The outcome of `await fetch(...)` and `await response.json()`:
\* fetch rejects, the response is not ok, json() rejects, or a body arrives.
FetchOutcomes ==
  { [kind |-> k, data |-> None] : k \in {"network", "status", "malformed"} }
    \cup { [kind |-> "body", data |-> Some(r)] : r \in Responses }

\* The try block throws before it reaches the assignment of currentStatus.
FetchFails(outcome) ==
  \/ outcome.kind # "body"
  \/ ~Get(outcome.data).online

\* p => ({ name: p.name_clean, uuid: p.uuid })
RECURSIVE MapPlayers(_)
MapPlayers(list) ==
  IF list = <<>> THEN <<>>
  ELSE <<[name |-> Head(list).name_clean, uuid |-> Head(list).uuid]>>
         \o MapPlayers(Tail(list))

\* data.players?.online ?? 0
NewPlayerCount(data) ==
  IF IsSome(data.players) THEN Get(data.players).online ELSE 0

\* The object literal assigned on success.
Decode(data, now) ==
  [online |-> TRUE,
   playerCount |-> NewPlayerCount(data),
   maxPlayers |-> IF IsSome(data.players) THEN Get(data.players).max ELSE 0,
   players |-> IF IsSome(data.players) /\ IsSome(Get(data.players).list)
               THEN MapPlayers(Get(Get(data.players).list))
               ELSE <<>>,
   motd |-> IF IsSome(data.motd) THEN Get(data.motd).clean ELSE "",
   version |-> IF IsSome(data.version) THEN Get(data.version).name_clean
               ELSE "Unknown",
   lastUpdated |-> now]

\* previousPlayerCount !== newPlayerCount, previousPlayerCount being
\* undefined when there is no snapshot yet.
CountChangedAlways(previousPlayerCount, newPlayerCount) == TRUE

CountChanged(previousPlayerCount, newPlayerCount) ==
  previousPlayerCount # Some(newPlayerCount)

\* The catch block when a snapshot exists: two fields are assigned in place.
MarkOfflineReset(status, now) ==
  [online |-> FALSE, playerCount |-> 0, maxPlayers |-> 0, players |-> <<>>,
   motd |-> "", version |-> "", lastUpdated |-> now]

MarkOffline(status, now) ==
  [status EXCEPT !.online = FALSE, !.lastUpdated = now]

\* The catch block when there is no snapshot.
OfflineSnapshotUnknown(now) ==
  [online |-> FALSE, playerCount |-> 0, maxPlayers |-> 0, players |-> <<>>,
   motd |-> "", version |-> "Unknown", lastUpdated |-> now]

OfflineSnapshot(now) ==
  [online |-> FALSE, playerCount |-> 0, maxPlayers |-> 0, players |-> <<>>,
   motd |-> "", version |-> "", lastUpdated |-> now]

\* The argument updateDiscordStatus() passes to setPresence.
PresenceOf(status) ==
  [state |-> IF status.online
             THEN <<"Online", status.playerCount, status.maxPlayers>>
             ELSE <<"Server Offline">>,
   status |-> IF status.online THEN "online" ELSE "idle"]

----------------------------------------------------------------------------
VARIABLES
  currentStatus,   \* reference to the current MinecraftStatus, or NullRef
  heap,            \* the reachable MinecraftStatus objects, by reference
  updateInterval,  \* the timer handle the manager holds, or 0
  timers,          \* the repeating timers that are armed
  discordClient,   \* the registered client
  inflight,        \* fetches awaiting an answer, per origin
  hung,            \* fetches the endpoint will never answer, per origin
  clock,           \* the value `new Date()` yields next
  presence,        \* what setPresence last delivered, if anything
  readerRef,       \* the reference a reader was handed, or NullRef
  readerSeen,      \* the fields the reader saw when it was handed
  stopped,         \* stop() has returned and start() was not called since
  last,            \* the most recently completed cycle
  everSucceeded,   \* some cycle so far had a successful fetch
  tickedSince,     \* a timer-triggered cycle began after the last completion
  warned,          \* the latest start() or stop() was a start() that only
                   \* logged "already running"
  instance,        \* MinecraftStatusManager.instance, if it was created
  lastGet,         \* the latest getInstance() call: arguments and result
  interaction      \* the slash command being handled: where its handler
                   \* stands, the embed it builds, the replies it has sent

vars == <<currentStatus, heap, updateInterval, timers, discordClient,
          inflight, hung, clock, presence, readerRef, readerSeen, stopped,
          last, everSucceeded, tickedSince, warned, instance, lastGet,
          interaction>>

\* The static part of the class.
singleton == <<instance, lastGet>>

\* The value of the current snapshot, if there is one.
Current == IF currentStatus = NullRef THEN None ELSE Some(heap[currentStatus])

InFlightTotal ==
  inflight["start"] + inflight["timer"] + inflight["force"]
    + hung["start"] + hung["timer"] + hung["force"]

\* No cycle has completed yet.
NoCycle ==
  [done |-> FALSE, fetchFailed |-> FALSE, client |-> NoClient,
   pre |-> None, post |-> None, sinkLog |-> <<>>, threw |-> FALSE]

\* Default values of the constructor parameters.
DefaultPort == 25565

DefaultUpdateIntervalMs == 30000

\* new MinecraftStatusManager(host, port, updateIntervalMs); `id` tells one
\* constructed object from another.
NewManager(id, host, port, updateIntervalMs) ==
  [id |-> id,
   host |-> Get(host),
   port |-> IF IsSome(port) THEN Get(port) ELSE DefaultPort,
   updateIntervalMs |-> IF IsSome(updateIntervalMs) THEN Get(updateIntervalMs)
                        ELSE DefaultUpdateIntervalMs]

\* new EmbedBuilder()
NoEmbed ==
  [title |-> "", color |-> 0, timestamp |-> 0, footer |-> "",
   description |-> "", fields |-> <<>>]

\* No slash command is being handled.
NoInteraction ==
  [pc |-> "idle", command |-> "", embed |-> NoEmbed, replies |-> <<>>]

\* No getInstance() call was made yet.
NoCall ==
  [called |-> FALSE, host |-> None, port |-> None, updateIntervalMs |-> None,
   threw |-> FALSE, returned |-> None]

\* The fields of a manager right after its construction.
InitManager ==
  /\ currentStatus = NullRef
  /\ heap = [r \in {} |-> OfflineSnapshot(0)]
  /\ updateInterval = 0
  /\ timers = {}
  /\ discordClient = NoClient
  /\ inflight = [o \in Origins |-> 0]
  /\ hung = [o \in Origins |-> 0]
  /\ clock = 1
  /\ presence = None
  /\ readerRef = NullRef
  /\ readerSeen = None
  /\ stopped = FALSE
  /\ last = NoCycle
  /\ everSucceeded = FALSE
  /\ tickedSince = FALSE
  /\ warned = FALSE

\* The manager the bot has created from its environment.
Init ==
  /\ InitManager
  /\ instance = Some(NewManager(1, Some("mc.a"), None, None))
  /\ lastGet = NoCall
  /\ interaction = NoInteraction

\* The process before anything has asked for the manager.
InitProcess ==
  /\ InitManager
  /\ instance = None
  /\ lastGet = NoCall
  /\ interaction = NoInteraction

----------------------------------------------------------------------------
(* updateStatus(), from the arrival of the answer to its return.           *)

\* A reference that is neither the manager's nor the reader's.
FreshRef(cur, held) == CHOOSE r \in Refs : r # cur /\ r # held

\* The heap restricted to what can still be reached.
Reachable(h, cur, held) ==
  [r \in (DOMAIN h) \cap {cur, held} |-> h[r]]

\* h with reference r bound to object s.
Bind(h, r, s) ==
  [x \in (DOMAIN h) \cup {r} |-> IF x = r THEN s ELSE h[x]]

\* updateDiscordStatus() returns early without a user or without a status.
SinkReached(client, cur) == HasUser(client) /\ cur # NullRef

\* The result of running updateStatus() on `outcome` from the present state.
\* throws1 and throws2 say whether setPresence throws at its first and
\* second invocation (lines 172 and 197).
updateStatus(outcome, throws1, throws2) ==
  LET now == clock
      fails == FetchFails(outcome)
      \* try block, lines 154-173
      previousPlayerCount ==
        IF currentStatus = NullRef THEN None
        ELSE Some(heap[currentStatus].playerCount)
      data == Get(outcome.data)
      newRef == FreshRef(currentStatus, readerRef)
      heapTry == Bind(heap, newRef, Decode(data, now))
      call1 == /\ ~fails
               /\ CountChanged(previousPlayerCount, NewPlayerCount(data))
               /\ discordClient # NoClient
               /\ SinkReached(discordClient, newRef)
      log1 == IF call1
              THEN <<[arg |-> PresenceOf(heapTry[newRef]),
                      threw |-> throws1]>>
              ELSE <<>>
      tryThrows == fails \/ (call1 /\ throws1)
      \* catch block, lines 178-199
      curAtCatch == IF fails THEN currentStatus ELSE newRef
      heapAtCatch == IF fails THEN heap ELSE heapTry
      offRef == IF curAtCatch # NullRef THEN curAtCatch
                ELSE FreshRef(curAtCatch, readerRef)
      heapCatch ==
        IF curAtCatch # NullRef
        THEN [heapAtCatch EXCEPT ![curAtCatch] = MarkOffline(@, now)]
        ELSE Bind(heapAtCatch, offRef, OfflineSnapshot(now))
      call2 == /\ tryThrows
               /\ discordClient # NoClient
               /\ SinkReached(discordClient, offRef)
      log2 == IF call2
              THEN <<[arg |-> PresenceOf(heapCatch[offRef]),
                      threw |-> throws2]>>
              ELSE <<>>
      cur == IF tryThrows THEN offRef ELSE newRef
      h == IF tryThrows THEN heapCatch ELSE heapTry
      log == log1 \o log2
      delivered == SelectSeq(log, LAMBDA c : ~c.threw)
  IN [currentStatus |-> cur,
      heap |-> h,
      sinkLog |-> log,
      presence |-> IF delivered = <<>> THEN presence
                   ELSE Some(delivered[Len(delivered)].arg),
      threw |-> call2 /\ throws2]

----------------------------------------------------------------------------
(* The operations.                                                         *)

\* The synchronous head of updateStatus(): the request is sent. The
\* endpoint will answer it, or never will; nothing in the request bounds
\* the wait (no signal, no timeout option at lines 137-142).
BeginFetch(origin, answered) ==
  /\ (clock - 1) + InFlightTotal < MaxCycles
  /\ InFlightTotal < MaxInFlight
  /\ IF answered
     THEN /\ inflight' = [inflight EXCEPT ![origin] = @ + 1]
          /\ UNCHANGED hung
     ELSE /\ hung' = [hung EXCEPT ![origin] = @ + 1]
          /\ UNCHANGED inflight

\* if (this.updateInterval): start() takes the manager to be running.
AlreadyRunningNever(handle) == FALSE

AlreadyRunning(handle) == handle # 0

\* start(discordClient) on a manager that holds a timer handle: a warning.
startWhileRunning ==
  /\ UNCHANGED singleton
  /\ UNCHANGED interaction
  /\ AlreadyRunning(updateInterval)
  /\ stopped' = FALSE
  /\ warned' = TRUE
  /\ UNCHANGED <<currentStatus, heap, updateInterval, timers, discordClient,
                 inflight, hung, clock, presence, readerRef, readerSeen,
                 last, everSucceeded, tickedSince>>

\* start(discordClient) up to `await this.updateStatus()`.
start(client, answered) ==
  /\ UNCHANGED singleton
  /\ UNCHANGED interaction
  /\ ~AlreadyRunning(updateInterval)
  /\ discordClient' = IF client # NoClient THEN client ELSE discordClient
  /\ BeginFetch("start", answered)
  /\ stopped' = FALSE
  /\ warned' = FALSE
  /\ UNCHANGED <<currentStatus, heap, updateInterval, timers, clock,
                 presence, readerRef, readerSeen, last, everSucceeded,
                 tickedSince>>

\* stop().
stopClearsCache ==
  /\ UNCHANGED singleton
  /\ UNCHANGED interaction
  /\ IF updateInterval # 0
     THEN /\ timers' = timers \ {updateInterval}
          /\ updateInterval' = 0
     ELSE UNCHANGED <<timers, updateInterval>>
  /\ stopped' = TRUE
  /\ warned' = FALSE
  /\ currentStatus' = NullRef
  /\ heap' = Reachable(heap, readerRef, readerRef)
  /\ UNCHANGED <<discordClient, inflight, hung, clock, presence, readerRef,
                 readerSeen, last, everSucceeded, tickedSince>>

stop ==
  /\ UNCHANGED singleton
  /\ UNCHANGED interaction
  /\ IF updateInterval # 0
     THEN /\ timers' = timers \ {updateInterval}
          /\ updateInterval' = 0
     ELSE UNCHANGED <<timers, updateInterval>>
  /\ stopped' = TRUE
  /\ warned' = FALSE
  /\ UNCHANGED <<currentStatus, heap, discordClient, inflight, hung, clock,
                 presence, readerRef, readerSeen, last, everSucceeded,
                 tickedSince>>

\* An armed timer fires: the callback runs up to its await. setInterval
\* does not wait for the promise of the previous callback.
timerTick(answered) ==
  /\ UNCHANGED singleton
  /\ UNCHANGED interaction
  /\ timers # {}
  /\ BeginFetch("timer", answered)
  /\ tickedSince' = TRUE
  /\ UNCHANGED <<currentStatus, heap, updateInterval, timers, discordClient,
                 clock, presence, readerRef, readerSeen, stopped, last,
                 everSucceeded, warned>>

\* forceUpdate() up to `await this.updateStatus()`.
forceUpdate(answered) ==
  /\ UNCHANGED singleton
  /\ UNCHANGED interaction
  /\ BeginFetch("force", answered)
  /\ UNCHANGED <<currentStatus, heap, updateInterval, timers, discordClient,
                 clock, presence, readerRef, readerSeen, stopped, last,
                 everSucceeded, tickedSince, warned>>

\* getStatus(): the reader is handed the manager's own object.
getStatus ==
  /\ UNCHANGED singleton
  /\ UNCHANGED interaction
  /\ readerRef' = currentStatus
  /\ readerSeen' = Current
  /\ heap' = Reachable(heap, currentStatus, currentStatus)
  /\ UNCHANGED <<currentStatus, updateInterval, timers, discordClient,
                 inflight, hung, clock, presence, stopped, last,
                 everSucceeded, tickedSince, warned>>

\* A timer handle that is not armed.
NewTimer == CHOOSE t \in 1..(MaxCycles + 1) : t \notin timers

\* The armed timers once a cycle of `origin` is over (a variant arms a
\* timer after every cycle, another drops the timers when the cycle threw): start() arms one
\* after its await unless updateStatus() threw; nothing else touches them.
TimersAfterCycleArmAlways(origin, threw) ==
  IF ~threw THEN timers \cup {NewTimer} ELSE timers

TimersAfterCycleDisarm(origin, threw) ==
  IF threw THEN {}
  ELSE IF origin = "start" THEN timers \cup {NewTimer} ELSE timers

TimersAfterCycle(origin, threw) ==
  IF origin = "start" /\ ~threw THEN timers \cup {NewTimer} ELSE timers

\* The answer to a fetch of `origin` arrives: the rest of updateStatus()
\* runs, then the continuation of whoever awaited it.
fetchSettles(origin, outcome, throws1, throws2) ==
  /\ UNCHANGED singleton
  /\ UNCHANGED interaction
  /\ inflight[origin] > 0
  /\ inflight' = [inflight EXCEPT ![origin] = @ - 1]
  /\ LET r == updateStatus(outcome, throws1, throws2)
         returned == origin = "force" /\ ~r.threw
         held == IF returned THEN r.currentStatus ELSE readerRef
     IN /\ currentStatus' = r.currentStatus
        /\ heap' = Reachable(r.heap, r.currentStatus, held)
        /\ presence' = r.presence
        /\ readerRef' = held
        /\ readerSeen' = IF returned THEN Some(r.heap[r.currentStatus])
                         ELSE readerSeen
        /\ last' = [done |-> TRUE, fetchFailed |-> FetchFails(outcome),
                    client |-> discordClient,
                    pre |-> Current,
                    post |-> Some(r.heap[r.currentStatus]),
                    sinkLog |-> r.sinkLog, threw |-> r.threw]
        /\ timers' = TimersAfterCycle(origin, r.threw)
        /\ updateInterval' = IF origin = "start" /\ ~r.threw THEN NewTimer
                             ELSE updateInterval
  /\ clock' = clock + 1
  /\ everSucceeded' = (everSucceeded \/ ~FetchFails(outcome))
  /\ tickedSince' = FALSE
  /\ UNCHANGED <<discordClient, hung, stopped, warned>>

Next ==
  \/ startWhileRunning
  \/ \E client \in ClientArgs, answered \in BOOLEAN : start(client, answered)
  \/ stop
  \/ \E answered \in BOOLEAN : timerTick(answered)
  \/ \E answered \in BOOLEAN : forceUpdate(answered)
  \/ getStatus
  \/ \E origin \in Origins, outcome \in FetchOutcomes,
        throws1 \in BOOLEAN, throws2 \in BOOLEAN :
       fetchSettles(origin, outcome, throws1, throws2)

Spec == Init /\ [][Next]_vars

----------------------------------------------------------------------------
(* The shared instance accessor.                                           *)

\* Hosts, ports and intervals a caller may pass; None is an omitted
\* argument.
HostArgs == {None, Some(""), Some("mc.a"), Some("mc.b")}

PortArgs == {None, Some(25566)}

IntervalArgs == {None, Some(1000)}

\* !MinecraftStatusManager.instance
NoInstanceAlways(inst) == TRUE

NoInstance(inst) == inst = None

\* !host: undefined and the empty string are both falsy.
HostMissingUndefinedOnly(host) == host = None

HostMissing(host) == host = None \/ Get(host) = ""

\* MinecraftStatusManager.getInstance(host, port, updateIntervalMs).
getInstance(host, port, updateIntervalMs) ==
  /\ IF NoInstance(instance)
     THEN IF HostMissing(host)
          THEN /\ lastGet' = [called |-> TRUE, host |-> host, port |-> port,
                              updateIntervalMs |-> updateIntervalMs,
                              threw |-> TRUE, returned |-> None]
               /\ UNCHANGED instance
          ELSE LET created ==
                     NewManager(IF instance = None THEN 1
                                ELSE Get(instance).id + 1,
                                host, port, updateIntervalMs)
               IN /\ instance' = Some(created)
                  /\ lastGet' = [called |-> TRUE, host |-> host,
                                 port |-> port,
                                 updateIntervalMs |-> updateIntervalMs,
                                 threw |-> FALSE, returned |-> Some(created)]
     ELSE /\ lastGet' = [called |-> TRUE, host |-> host, port |-> port,
                         updateIntervalMs |-> updateIntervalMs,
                         threw |-> FALSE, returned |-> instance]
          /\ UNCHANGED instance
  /\ UNCHANGED <<currentStatus, heap, updateInterval, timers, discordClient,
                 inflight, hung, clock, presence, readerRef, readerSeen,
                 stopped, last, everSucceeded, tickedSince, warned,
                 interaction>>

NextAccessor ==
  \E host \in HostArgs, port \in PortArgs, updateIntervalMs \in IntervalArgs :
    getInstance(host, port, updateIntervalMs)

AccessorSpec == InitProcess /\ [][NextAccessor]_vars

\* The runtime runs the continuation of every fetch that is answered and
\* fires every armed timer.
FairSpec ==
  /\ Spec
  /\ WF_vars(\E origin \in Origins, outcome \in FetchOutcomes,
                throws1 \in BOOLEAN, throws2 \in BOOLEAN :
               fetchSettles(origin, outcome, throws1, throws2))
  /\ WF_vars(\E answered \in BOOLEAN : timerTick(answered))

----------------------------------------------------------------------------
(* The slash commands /ip and /list. A handler runs from one await to the  *)
(* next: up to `await interaction.deferReply(...)`, from there to its      *)
(* first `await interaction.editReply(...)`, and from there on. A reply    *)
(* is recorded when editReply is called, with the embed as it is then.     *)

Commands == {"ip", "list"}

\* config.ui.color and the literals of /list.
GREEN == 65280

RED == 16711680

\* The `content` of the reply when there is no snapshot.
UnableText(command) ==
  IF command = "ip"
  THEN "Unable to fetch server status. Please try again later"
  ELSE "Unable to fetch server status. Please try again later."

\* One element of addFields(...). A template literal is the sequence of
\* its parts.
Field(name, value, inline) ==
  [name |-> name, value |-> value, inline |-> inline]

\* status.motd && status.motd.trim() !== "". The texts of the model are
\* far shorter than the 1024 characters above which a value is cut.
MotdShown(motd) == motd \notin {"", " "}

\* new EmbedBuilder().setTitle(...).setColor(...).setTimestamp(...) and,
\* for /ip, .setFooter(...).
NewEmbed(command, status) ==
  [title |-> IF command = "ip" THEN "MC_SERVER_NAME"
             ELSE "Minecraft server status",
   color |-> IF status.online THEN GREEN ELSE RED,
   timestamp |-> status.lastUpdated,
   footer |-> IF command = "ip" THEN "Last updated" ELSE "",
   description |-> "",
   fields |-> <<>>]

AddFields(embed, fields) == [embed EXCEPT !.fields = @ \o fields]

\* /ip, the body of `if (!status.online)`.
ipOfflineFields ==
  << Field("Status", <<"Offline">>, TRUE),
     Field("Server Address", <<"MC_SERVER_DOMAIN">>, FALSE) >>

\* /ip, the statements after the `if`.
ipOnlineFields(status) ==
  << Field("Status", <<"Online">>, TRUE),
     Field("Players", <<status.playerCount, "/", status.maxPlayers>>, TRUE),
     Field("Version",
           <<IF status.version # "" THEN status.version ELSE "Unknown">>,
           TRUE),
     Field("Server Address", <<"MC_SERVER_DOMAIN">>, FALSE) >>
    \o (IF MotdShown(status.motd)
        THEN << Field("Message of the Day", <<status.motd>>, FALSE) >>
        ELSE << >>)

\* /list, the statements after the offline branch has returned. The number
\* in the name of "Online Players (n)" is the first part of the value.
listOnlineFields(status) ==
  << Field("Status", <<"Online">>, TRUE),
     Field("Players", <<status.playerCount, "/", status.maxPlayers>>, TRUE),
     Field("Version", <<status.version>>, TRUE) >>
    \o (IF Len(status.players) > 0
        THEN << Field("Online Players",
                      <<Len(status.players)>>
                        \o [i \in DOMAIN status.players |->
                              status.players[i].name],
                      FALSE) >>
        ELSE IF status.playerCount > 0
        THEN << Field("Players Online",
                      <<status.playerCount, "names not available">>, FALSE) >>
        ELSE << Field("Players Online",
                      <<"No players currently online">>, FALSE) >>)

\* interaction.editReply(...) with what the handler passes at that moment.
Reply(content, embeds) == [content |-> content, embeds |-> embeds]

\* A command arrives (the gateway delivers commands once the client is
\* ready, and the ready handler has then called start()): execute() up to
\* `await interaction.deferReply(...)`.
execute(command) ==
  /\ discordClient # NoClient
  /\ interaction.pc \in {"idle", "done"}
  /\ interaction' = [NoInteraction EXCEPT !.pc = "deferred",
                                          !.command = command]
  /\ UNCHANGED <<currentStatus, heap, updateInterval, timers, discordClient,
                 inflight, hung, clock, presence, readerRef, readerSeen,
                 stopped, last, everSucceeded, tickedSince, warned,
                 instance, lastGet>>

\* From the deferral to the first `await interaction.editReply(...)`.
\* /ip has no `return` after the editReply of its offline branch.
executeAfterDefer ==
  /\ interaction.pc = "deferred"
  /\ ~NoInstance(instance)
  /\ lastGet' = [called |-> TRUE, host |-> None, port |-> None,
                 updateIntervalMs |-> None, threw |-> FALSE,
                 returned |-> instance]
  /\ readerRef' = currentStatus
  /\ readerSeen' = Current
  /\ heap' = Reachable(heap, currentStatus, currentStatus)
  /\ LET command == interaction.command
     IN IF Current = None
        THEN interaction' =
               [interaction EXCEPT
                  !.pc = "done",
                  !.replies = Append(@, Reply(UnableText(command), <<>>))]
        ELSE LET status == Get(Current)
                 embed == NewEmbed(command, status)
                 sent ==
                   IF ~status.online
                   THEN IF command = "ip"
                        THEN AddFields(embed, ipOfflineFields)
                        ELSE [embed EXCEPT
                                !.description = "Server is currently offline"]
                   ELSE IF command = "ip"
                        THEN AddFields(embed, ipOnlineFields(status))
                        ELSE AddFields(embed, listOnlineFields(status))
             IN interaction' =
                  [interaction EXCEPT
                     !.pc = IF ~status.online /\ command = "ip"
                            THEN "replied" ELSE "done",
                     !.embed = sent,
                     !.replies = Append(@, Reply("", <<sent>>))]
  /\ UNCHANGED <<currentStatus, updateInterval, timers, discordClient,
                 inflight, hung, clock, presence, stopped, last,
                 everSucceeded, tickedSince, warned, instance>>

\* /ip after the editReply of its offline branch has resolved: the
\* statements after the `if`, on the same embed and the same status object.
executeAfterReply ==
  /\ interaction.pc = "replied"
  /\ LET sent == AddFields(interaction.embed, ipOnlineFields(heap[readerRef]))
     IN interaction' =
          [interaction EXCEPT !.pc = "done",
                              !.embed = sent,
                              !.replies = Append(@, Reply("", <<sent>>))]
  /\ UNCHANGED <<currentStatus, heap, updateInterval, timers, discordClient,
                 inflight, hung, clock, presence, readerRef, readerSeen,
                 stopped, last, everSucceeded, tickedSince, warned,
                 instance, lastGet>>

\* bot.once("clientReady"): start(bot), once.
clientReady(answered) ==
  /\ discordClient = NoClient
  /\ start("ready", answered)

\* The bot as it is wired: the ready handler, the timer, the answers of the
\* endpoint, and the two commands.
NextBot ==
  \/ \E answered \in BOOLEAN : clientReady(answered)
  \/ \E answered \in BOOLEAN : timerTick(answered)
  \/ \E origin \in Origins, outcome \in FetchOutcomes,
        throws1 \in BOOLEAN, throws2 \in BOOLEAN :
       fetchSettles(origin, outcome, throws1, throws2)
  \/ \E command \in Commands : execute(command)
  \/ executeAfterDefer
  \/ executeAfterReply

BotSpec == Init /\ [][NextBot]_vars

----------------------------------------------------------------------------
(* Properties.                                                             *)

\* The fields a failure must preserve.
Kept(status) ==
  <<status.playerCount, status.maxPlayers, status.players, status.motd,
    status.version>>

\* setPresence threw at some invocation of the last cycle.
SinkThrew == \E i \in DOMAIN last.sinkLog : last.sinkLog[i].threw

\* C1: when the fetch of a cycle fails and a snapshot existed before the
\* cycle, the snapshot current after it is offline and has the playerCount,
\* maxPlayers, players, motd and version of the snapshot before it.
C1_PreservationOnFailure ==
  (last.done /\ last.fetchFailed /\ IsSome(last.pre)) =>
    /\ IsSome(Current)
    /\ ~Get(Current).online
    /\ Kept(Get(Current)) = Kept(Get(last.pre))

C1_Witness ==
  /\ last.done /\ last.fetchFailed /\ IsSome(last.pre)
  /\ Get(last.pre).online
  /\ Get(last.pre).players # <<>>
  /\ Get(Current).lastUpdated > Get(last.pre).lastUpdated

\* C2: at most one repeating timer is armed, and an armed timer is the one
\* whose handle the manager holds, which is the one stop() clears.
C2_AtMostOneTimer ==
  /\ Cardinality(timers) <= 1
  /\ \A t \in timers : t = updateInterval

C4_SinkFailureContained ==
  (last.done /\ SinkThrew) =>
    /\ ~last.threw
    /\ ~last.fetchFailed => Get(Current).online

\* C5: no two timer-triggered cycles of the instance are in flight together.
C5_NoOverlappingTimerCycles == inflight["timer"] <= 1

\* C6: the object a reader was handed keeps the fields the reader saw.
C6_SnapshotImmutable ==
  readerRef # NullRef => Some(heap[readerRef]) = readerSeen

\* C7: after stop() has returned, and until start() is called again, no
\* timer is armed.
C7_StopIsFinal == stopped => timers = {}

\* C8: every fetch cycle that was begun completes, whoever began it.
C8_EveryFetchCompletes ==
  \A o \in Origins :
    (inflight[o] + hung[o] > 0) ~> (inflight[o] + hung[o] = 0)

\* C9: with a sink registered and a snapshot present, a successful cycle
\* invokes the sink exactly once, with the new snapshot, when the fetched
\* count differs from the count before the cycle, and not at all otherwise.
C9_EdgeTriggered ==
  (last.done /\ ~last.fetchFailed /\ last.client # NoClient
     /\ IsSome(last.pre)) =>
    IF Get(last.pre).playerCount # Get(last.post).playerCount
    THEN /\ Len(last.sinkLog) = 1
         /\ last.sinkLog[1].arg.state =
              <<"Online", Get(last.post).playerCount,
                Get(last.post).maxPlayers>>
    ELSE last.sinkLog = <<>>

\* C10: a cycle invokes the sink at most once.
C10_AtMostOneSinkCallPerCycle == last.done => Len(last.sinkLog) <= 1

\* The bounds of the model leave no room for another fetch.
NoBudget ==
  \/ (clock - 1) + InFlightTotal >= MaxCycles
  \/ InFlightTotal >= MaxInFlight

\* C11: the completion of a cycle never disarms a timer, and after a cycle
\* that failed (its fetch or its sink) while a timer is armed, a
\* timer-triggered cycle begins, unless stop() disarms the timer first.
C11_SelfHealing ==
  /\ [][clock' # clock => timers \subseteq timers']_vars
  /\ (last.done /\ (last.fetchFailed \/ SinkThrew) /\ timers # {}
        /\ ~tickedSince)
       ~> (tickedSince \/ timers = {} \/ NoBudget)

C11_Witness ==
  /\ last.done /\ last.fetchFailed /\ SinkThrew /\ last.threw
  /\ timers # {}
  /\ tickedSince

\* C12: when a start() call that began a cycle finishes, a snapshot is
\* present and the manager holds an armed timer.
C12_StartReachesRunning ==
  [][inflight'["start"] < inflight["start"] =>
       /\ currentStatus' # NullRef
       /\ updateInterval' \in timers']_vars

\* C13: forceUpdate() does not throw, and the completion of a cycle leaves
\* as current snapshot what that one cycle published: an online snapshot
\* after a successful fetch, after a failed fetch the offline copy of the
\* snapshot before it (the all-empty one when there was none).
C13_LastPublishWins ==
  [][clock' # clock =>
       /\ inflight'["force"] < inflight["force"] => ~last'.threw
       /\ Current' = last'.post
       /\ IF last'.fetchFailed
          THEN /\ ~Get(Current').online
               /\ Kept(Get(Current')) =
                    IF IsSome(last'.pre) THEN Kept(Get(last'.pre))
                    ELSE Kept(OfflineSnapshot(0))
          ELSE Get(Current').online]_vars

\* A step of start(), whichever branch it takes.
StartCalled ==
  \/ startWhileRunning
  \/ \E client \in ClientArgs, answered \in BOOLEAN : start(client, answered)

\* C14: start() on a manager that holds an armed timer begins no fetch,
\* arms no timer, keeps the registered client and the current snapshot.
C14_StartIdempotent ==
  [][(updateInterval # 0 /\ StartCalled) =>
       UNCHANGED <<currentStatus, heap, updateInterval, timers,
                   discordClient, inflight, hung, clock, presence>>]_vars

C14_Witness ==
  /\ warned
  /\ updateInterval \in timers
  /\ discordClient = NoClient
  /\ IsSome(Current)

\* A step of stop() that changes anything.
StopReturned ==
  \/ stopped' /\ ~stopped
  \/ timers' # timers /\ timers' \subseteq timers

\* C15: stop() disarms the timer whose handle the manager holds and drops
\* the handle, changes no timer when it holds none, and leaves the current
\* snapshot, the registered client and the fetches in flight as they are.
C15_StopFrame ==
  [][StopReturned =>
       /\ timers' = timers \ {updateInterval}
       /\ updateInterval' = 0
       /\ UNCHANGED <<currentStatus, heap, discordClient, presence,
                      inflight, hung, clock>>]_vars

C15_Witness ==
  /\ stopped
  /\ updateInterval = 0
  /\ timers = {}
  /\ tickedSince
  /\ IsSome(Current)
  /\ discordClient # NoClient

\* C18: as long as no cycle has had a successful fetch, the snapshot
\* published is offline with zero counts, no players, empty motd and
\* empty version.
C18_FirstFailureSynthesis ==
  (last.done /\ ~everSucceeded) =>
    /\ IsSome(Current)
    /\ ~Get(Current).online
    /\ Kept(Get(Current)) = <<0, 0, <<>>, "", "">>

C18_Witness ==
  /\ last.done /\ ~everSucceeded
  /\ IsSome(last.pre)
  /\ Get(Current).lastUpdated > Get(last.pre).lastUpdated

\* C19: neither the call of forceUpdate() nor the completion of its cycle
\* changes the armed timers or the handle the manager holds, and when it
\* returns it returns the snapshot current at that moment.
C19_ForceUpdateKeepsLifecycle ==
  [][(inflight'["force"] + hung'["force"] # inflight["force"] + hung["force"])
       =>
       /\ UNCHANGED <<timers, updateInterval>>
       /\ (clock' # clock /\ ~last'.threw) =>
            /\ readerRef' = currentStatus'
            /\ readerRef' # NullRef
            /\ readerSeen' = Current']_vars

C19_Witness ==
  /\ inflight["force"] > 0
  /\ updateInterval \in timers
  /\ tickedSince
  /\ IsSome(Current)

\* C20: after a cycle of a poller with a registered sink in which the sink
\* did not fail, what the sink was last given agrees with the current
\* snapshot.
C20_PresenceTracksCache ==
  (last.done /\ last.client # NoClient /\ ~SinkThrew) =>
    presence = Some(PresenceOf(Get(Current)))

\* C16: once the instance exists every getInstance() call returns it and
\* leaves it as it is, and the instance a call creates has the host of that
\* call and its port and interval, or the defaults where they were omitted.
C16_FirstCallerWins ==
  [][/\ IsSome(instance) =>
          /\ instance' = instance
          /\ ~lastGet'.threw
          /\ lastGet'.returned = instance
     /\ (instance = None /\ IsSome(instance')) =>
          /\ lastGet'.returned = instance'
          /\ Some(Get(instance').host) = lastGet'.host
          /\ IsSome(lastGet'.port) => Get(instance').port = Get(lastGet'.port)
          /\ lastGet'.port = None => Get(instance').port = DefaultPort
          /\ IsSome(lastGet'.updateIntervalMs) =>
               Get(instance').updateIntervalMs = Get(lastGet'.updateIntervalMs)
          /\ lastGet'.updateIntervalMs = None =>
               Get(instance').updateIntervalMs = DefaultUpdateIntervalMs]_vars

C16_Witness ==
  /\ IsSome(instance)
  /\ lastGet.called /\ ~lastGet.threw
  /\ lastGet.returned = instance
  /\ IsSome(lastGet.host) /\ Get(lastGet.host) # ""
  /\ Get(lastGet.host) # Get(instance).host
  /\ IsSome(lastGet.port) /\ Get(instance).port = DefaultPort

\* C17: without an instance, a getInstance() call without a host throws and
\* creates none, and a call with a host creates the instance with that host.
C17_MissingHostIsAnError ==
  [][instance = None =>
       IF lastGet'.host \in {None, Some("")}
       THEN lastGet'.threw /\ instance' = None /\ lastGet'.returned = None
       ELSE /\ ~lastGet'.threw
            /\ IsSome(instance')
            /\ Some(Get(instance').host) = lastGet'.host]_vars

C17_Witness ==
  /\ instance = None
  /\ lastGet.called /\ lastGet.threw
  /\ lastGet.host = None


\* The names of the fields of an embed, in order.
FieldNames(embed) == [i \in DOMAIN embed.fields |-> embed.fields[i].name]

\* C21: a step of the /ip handler changes nothing of the poller (it triggers
\* no fetch cycle) and never sends a second reply; when the handler is done
\* it has sent exactly one reply, decided by the snapshot it read: no
\* snapshot, only the "unable to fetch" text; an offline snapshot, only an
\* embed whose fields are the Offline status and the address, without
\* Online, Players or Version; an online snapshot, only the online embed.
C21_IpRepliesOnceFromCache ==
  [][(interaction' # interaction /\ interaction'.command = "ip") =>
       /\ UNCHANGED <<currentStatus, updateInterval, timers, discordClient,
                      inflight, hung, clock, presence, last>>
       /\ Len(interaction'.replies) <= 1
       /\ interaction'.pc = "done" =>
            /\ Len(interaction'.replies) = 1
            /\ LET reply == interaction'.replies[1]
               IN IF readerSeen' = None
                  THEN reply = Reply(UnableText("ip"), <<>>)
                  ELSE /\ reply.content = ""
                       /\ Len(reply.embeds) = 1
                       /\ LET embed == reply.embeds[1]
                              status == Get(readerSeen')
                          IN IF ~status.online
                             THEN /\ FieldNames(embed)
                                       = <<"Status", "Server Address">>
                                  /\ embed.fields[1].value = <<"Offline">>
                                  /\ embed.color = RED
                             ELSE /\ SubSeq(FieldNames(embed), 1, 4)
                                       = <<"Status", "Players", "Version",
                                           "Server Address">>
                                  /\ embed.fields[1].value = <<"Online">>
                                  /\ embed.fields[2].value
                                       = <<status.playerCount, "/",
                                           status.maxPlayers>>
                                  /\ embed.color = GREEN]_vars

====
